---------------------------- MODULE Spec2Model ----------------------------
(***************************************************************************)
(* State-machine model of src/Cache.py: the RAM tier (RAMCache), the disk  *)
(* budget controller and the migration/eviction engine (AutoCacheManager), *)
(* and the two execution contexts (the sweep in run() and the monitor      *)
(* thread in monitor_system()).                                            *)
(*                                                                         *)
(* Every method is a sequence of labelled steps; a context's position is   *)
(* its stack of labels (the label it is at first, then the labels its      *)
(* callers continue at).  A step is one statement of the source, or a few  *)
(* adjacent ones that touch no shared state in between.                    *)
(*                                                                         *)
(* Sizes are counted in GiB (1024 ** 3 bytes).  Free space and available   *)
(* memory are drawn from values for which the float products of the source *)
(* (x * 0.5, x * 0.8, x * 0.9, total * 0.1, total * 0.05) are exact, so    *)
(* int(x * f) is the integer quotient used here.                           *)
(***************************************************************************)
EXTENDS Integers, Sequences, FiniteSets, TLC

\* ------------------------------------------------------------ bounds
\* Last-access timestamps run over 0..MaxTime (the clock's granularity:
\* later accesses at MaxTime share one timestamp).
MaxTime == 3
\* Total capacity of the fast device, GiB.
SsdTotal == 200

\* The tracked files under the slow-storage root, by relative path.
Paths == {1, 2}
\* Values psutil.virtual_memory().available can take, GiB.
AvailVals == {0, 6, 10, 20}
\* The two of them the manager is checked under: nothing fits, everything fits.
MgrAvailVals == {0, 20}
\* Values psutil.disk_usage(ssd).free can take, GiB.
FreeVals == {10, 20, 40}
\* st_size of the file at origin path p, GiB.
FileSize(p) == 4 + p

\* ------------------------------------------------- program constants
\* DEFAULT_CACHE_PERCENT = 0.5, as tenths.
DEFAULT_CACHE_PERCENT_TENTHS == 5
MIN_CACHE_GB == 10
MAX_CACHE_GB == 500
\* 1024 ** 3 bytes, the unit of every size of the model.
GiB == 1

Threads == {"main", "mon"}

VARIABLES
    \* RAMCache
    cache,              \* OrderedDict path -> data, first = least recently used
    max_size,
    \* AutoCacheManager
    cached_files,       \* dict origin path -> cache path, in insertion order
    cache_size_bytes,   \* the active disk budget
    running,
    \* the environment
    config,             \* content of cache_config.json
    origin,             \* what each origin path holds on slow storage
    ssd,                \* what each cache path holds on fast storage
    atime,              \* st_atime of each file's content
    faults,             \* whether filesystem calls may fail
    avails,             \* the values available memory takes
    frees,              \* the values free space on the fast device takes
    total,              \* the capacity of the fast device
    \* the contexts
    stack,              \* per context: label it is at, then its callers' labels
    arg,                \* per context: path / key of the call in progress
    dlen,               \* per context: len(data) of the payload read
    fsize,              \* per context: file_size of cache_file
    cdest,              \* per context: cache_dest of clean_cache
    cur,                \* per context: current_size of the loop in progress
    newsz,              \* per context: new_size of adjust_cache_size
    oldest,             \* per context: oldest_file of clean_cache (0: unbound)
    raised,             \* per context: an exception left its outermost call
    todo,               \* files the walk of run() has still to yield
    \* history (observation only)
    op,                 \* the public call in progress in the sweep context
    ret,                \* what RAMCache.add / get returned to that call
    pre,                \* what the call found: RAM tier, index, the file
    events,             \* what the call has done so far
    hs,                 \* since the call's first has_space: the results of
                        \* has_space and the entries into clean_cache, in order
    lastMig,            \* the file the previous call migrated (0: none)
    wasWhole,           \* per file: its content was complete when migrated
    used,               \* keys of the RAM tier by last use, oldest first
    evictOK             \* every RAM eviction so far took the least recently used

ramVars == <<cache, max_size>>
mgrVars == <<cached_files, cache_size_bytes, running>>
envVars == <<config, origin, ssd, atime, faults, avails, frees, total>>
ctxVars == <<arg, dlen, fsize, cdest, cur, newsz, oldest, todo>>
histNoTrace == <<op, ret, pre, hs, lastMig, wasWhole, used, evictOK>>
histVars == <<histNoTrace, events>>
vars == <<ramVars, mgrVars, envVars, stack, ctxVars, raised, histVars>>

\* ------------------------------------------------------------ files
Plain(id, whole) == [kind |-> "plain", id |-> id, whole |-> whole, target |-> 0]
Link(c) == [kind |-> "link", id |-> 0, whole |-> FALSE, target |-> c]
Absent == [kind |-> "none", id |-> 0, whole |-> FALSE, target |-> 0]

\* st_size of a file object; a copy cut short holds half the bytes.
SizeOf(f) ==
    IF f.kind # "plain" THEN 0
    ELSE IF f.whole THEN FileSize(f.id) ELSE FileSize(f.id) \div 2

\* What opening origin path p reaches: a redirect is followed.
Resolve(p) ==
    IF origin[p].kind = "link" THEN ssd[origin[p].target] ELSE origin[p]

\* Outcomes of a filesystem call.
Outcomes == IF faults THEN {"ok", "fail"} ELSE {"ok"}

Max(a, b) == IF a >= b THEN a ELSE b
Min(a, b) == IF a <= b THEN a ELSE b

RECURSIVE SumLen(_)
SumLen(s) == IF s = <<>> THEN 0 ELSE Head(s).len + SumLen(Tail(s))

RECURSIVE Without(_, _)
\* Sequence s without the entries of key k.
Without(s, k) ==
    IF s = <<>> THEN <<>>
    ELSE IF Head(s).path = k THEN Without(Tail(s), k)
    ELSE <<Head(s)>> \o Without(Tail(s), k)

RECURSIVE WithoutKey(_, _)
\* Sequence of keys s without k.
WithoutKey(s, k) ==
    IF s = <<>> THEN <<>>
    ELSE IF Head(s) = k THEN WithoutKey(Tail(s), k)
    ELSE <<Head(s)>> \o WithoutKey(Tail(s), k)

Keys(s) == {s[i].path : i \in 1..Len(s)}
Entry(s, k) == CHOOSE e \in {s[i] : i \in 1..Len(s)} : e.path = k

\* ------------------------------------------------------- control
At(t, l) == stack[t] # <<>> /\ Head(stack[t]) = l
Goto(t, l) == stack' = [stack EXCEPT ![t] = <<l>> \o Tail(@)]
Call(t, entry, cont) == stack' = [stack EXCEPT ![t] = <<entry, cont>> \o Tail(@)]
Return(t) == stack' = [stack EXCEPT ![t] = Tail(@)]
\* An exception no handler of the call chain catches: it unwinds the context,
\* up to the frame of a caller that observes it.
Raise(t) ==
    /\ stack' = [stack EXCEPT ![t] =
                    IF @[Len(@)] = "fin" THEN <<"fin">> ELSE <<>>]
    /\ raised' = [raised EXCEPT ![t] = TRUE]

\* The sweep context's events are kept for the call in progress.
Note(t, e) == events' = IF t = "main" THEN events \cup {e} ELSE events
NoteAll(t, es) == events' = IF t = "main" THEN events \cup es ELSE events

\* The events kept from one call of the sweep context to the next: a write
\* of the index file has failed.
Sticky == {"fault_save"}

\* ------------------------------------------------------ RAMCache
\* get_available_ram: int(mem.available * 0.9)
get_available_ram(avail) == (avail * 9) \div 10

\* OrderedDict.move_to_end(path)
MoveToEnd(c, k) == Without(c, k) \o <<Entry(c, k)>>

\* self.cache[path] = data: a present key keeps its place, a new one is last.
SetItem(c, k, n) ==
    IF k \in Keys(c)
    THEN [i \in 1..Len(c) |-> IF c[i].path = k THEN [path |-> k, len |-> n] ELSE c[i]]
    ELSE Append(c, [path |-> k, len |-> n])

\* update_max_size, lines 38-39; line 40 is the trim it continues with.
ums(t) ==
    /\ At(t, "ums")
    /\ \E avail \in avails : max_size' = get_available_ram(avail)
    /\ Goto(t, "trimA")
    /\ UNCHANGED <<cache, mgrVars, envVars, ctxVars, raised, histVars>>

\* trim_cache, line 43
trimA(t) ==
    /\ At(t, "trimA")
    /\ cur' = [cur EXCEPT ![t] = SumLen(cache)]
    /\ Goto(t, "trimB")
    /\ UNCHANGED <<ramVars, mgrVars, envVars, arg, dlen, fsize, cdest, newsz,
                   oldest, todo, raised, histVars>>

\* trim_cache, lines 44-45: the loop test and popitem(last=False)
trimB(t) ==
    /\ At(t, "trimB")
    /\ IF cur[t] > max_size /\ cache # <<>>
       THEN /\ cache' = Tail(cache)
            /\ used' = WithoutKey(used, Head(cache).path)
            /\ evictOK' = (evictOK /\ used # <<>> /\ Head(used) = Head(cache).path)
            /\ Goto(t, "trimC")
       ELSE /\ Return(t)
            /\ UNCHANGED <<cache, used, evictOK>>
    /\ UNCHANGED <<max_size, mgrVars, envVars, ctxVars, raised, op, ret, pre, hs, lastMig,
                   wasWhole, events>>

\* trim_cache, line 46
trimC(t) ==
    /\ At(t, "trimC")
    /\ cur' = [cur EXCEPT ![t] = SumLen(cache)]
    /\ Goto(t, "trimB")
    /\ UNCHANGED <<ramVars, mgrVars, envVars, arg, dlen, fsize, cdest, newsz,
                   oldest, todo, raised, histVars>>

\* add, line 49
add1(t) ==
    /\ At(t, "add1")
    /\ Call(t, "ums", "add2")
    /\ UNCHANGED <<ramVars, mgrVars, envVars, ctxVars, raised, histVars>>

\* add without the size test of line 50.
add2_NoCheck(t) ==
    /\ At(t, "add2")
    /\ Call(t, "trimA", "add3")
    /\ UNCHANGED <<ramVars, mgrVars, envVars, ctxVars, raised, histVars>>

\* add, lines 50-52
add2(t) ==
    /\ At(t, "add2")
    /\ IF dlen[t] > max_size
       THEN /\ Return(t)
            /\ ret' = "false"
       ELSE /\ Call(t, "trimA", "add3")
            /\ UNCHANGED ret
    /\ UNCHANGED <<ramVars, mgrVars, envVars, ctxVars, raised, op, pre, hs, lastMig,
                   wasWhole, used, evictOK, events>>

\* add, lines 53-55
add3(t) ==
    /\ At(t, "add3")
    /\ cache' = MoveToEnd(SetItem(cache, arg[t], dlen[t]), arg[t])
    /\ used' = Append(WithoutKey(used, arg[t]), arg[t])
    /\ ret' = "true"
    /\ Return(t)
    /\ UNCHANGED <<max_size, mgrVars, envVars, ctxVars, raised, op, pre, hs, lastMig,
                   wasWhole, evictOK, events>>

\* get that returns the payload without refreshing the key's position.
RamGet_NoMove(k) ==
    /\ UNCHANGED <<cache, used>>
    /\ ret' = IF k \in Keys(cache) THEN "hit" ELSE "miss"

\* get, lines 58-61, for key k; ret' tells a hit from a miss.
RamGet(k) ==
    IF k \in Keys(cache)
    THEN /\ cache' = MoveToEnd(cache, k)
         /\ used' = Append(WithoutKey(used, k), k)
         /\ ret' = "hit"
    ELSE /\ UNCHANGED <<cache, used>>
         /\ ret' = "miss"

\* get as a call of its own
get1(t) ==
    /\ At(t, "get1")
    /\ RamGet(arg[t])
    /\ Return(t)
    /\ UNCHANGED <<max_size, mgrVars, envVars, ctxVars, raised, op, pre, hs, lastMig,
                   wasWhole, evictOK, events>>

\* remove, lines 64-65
remove1(t) ==
    /\ At(t, "remove1")
    /\ cache' = Without(cache, arg[t])
    /\ used' = WithoutKey(used, arg[t])
    /\ Return(t)
    /\ UNCHANGED <<max_size, mgrVars, envVars, ctxVars, raised, op, ret, pre, hs,
                   lastMig, wasWhole, evictOK, events>>

\* The steps of the RAM tier the manager and the monitor reach.
RamStep(t) ==
    \/ ums(t)
    \/ trimA(t)
    \/ trimB(t)
    \/ trimC(t)
    \/ add1(t)
    \/ add2(t)
    \/ add3(t)

\* --------------------------------------------------- disk budget
RECURSIVE SumSsd(_)
SumSsd(S) ==
    IF S = {} THEN 0
    ELSE LET c == CHOOSE x \in S : TRUE IN SizeOf(ssd[c]) + SumSsd(S \ {c})

\* get_cache_size, lines 138-144: the sizes of the files under cache_dir.
get_cache_size == SumSsd(Paths)

\* A clamp that forgets the maximum.
Clamp_NoMax(n) == Max(MIN_CACHE_GB * GiB, n)

\* max(self.min_cache_bytes, min(self.max_cache_bytes, new_size))
Clamp(n) == Max(MIN_CACHE_GB * GiB, Min(MAX_CACHE_GB * GiB, n))

\* set_initial_cache_size, line 107: int(free_space_bytes * self.cache_percent)
proposed_size(free) == (free * DEFAULT_CACHE_PERCENT_TENTHS) \div 10

\* set_initial_cache_size, lines 105-108
set_initial_cache_size(free) == Clamp(proposed_size(free))

\* adjust_cache_size, lines 113-116: new_size before it is clamped
proposed_new_size(free) ==
    IF free * 10 < total
    THEN (free * 8) \div 10
    ELSE (free * DEFAULT_CACHE_PERCENT_TENTHS) \div 10

\* adjust_cache_size, lines 111-117: the clamped new_size
new_size(free) == Clamp(proposed_new_size(free))

Abs(n) == IF n < 0 THEN -n ELSE n

\* A threshold that a difference of exactly 1 GiB passes.
Readopt_AtLeast(new, active) == Abs(new - active) >= GiB

\* adjust_cache_size, line 118: whether new_size replaces the active budget
Readopt(new, active) == Abs(new - active) > GiB

\* has_space, lines 147-149
has_space(free, file_size) ==
    /\ (free - file_size) * 100 > total * 5
    /\ get_cache_size + file_size <= cache_size_bytes

\* adjust_cache_size, lines 111-118
adj1(t) ==
    /\ At(t, "adj1")
    /\ \E free \in frees :
         /\ newsz' = [newsz EXCEPT ![t] = new_size(free)]
         /\ IF Readopt(new_size(free), cache_size_bytes)
            THEN Goto(t, "adj2")
            ELSE Return(t)
    /\ UNCHANGED <<ramVars, mgrVars, envVars, arg, dlen, fsize, cdest, cur, oldest,
                   todo, raised, histVars>>

\* adjust_cache_size, lines 119-120: adopt, then clean_cache
adj2(t) ==
    /\ At(t, "adj2")
    /\ cache_size_bytes' = newsz[t]
    /\ Goto(t, "cc1")
    /\ UNCHANGED <<ramVars, cached_files, running, envVars, ctxVars, raised,
                   histVars>>

\* ---------------------------------------------------- the index
IndexKeys == {cached_files[i].o : i \in 1..Len(cached_files)}
IndexEntry(p) ==
    CHOOSE e \in {cached_files[i] : i \in 1..Len(cached_files)} : e.o = p

\* self.cache_dir / file_path.relative_to(self.hdd_dir), line 167: the cache
\* path keeps the file's path relative to the slow-storage root.
Dest(p) == p

\* self.cached_files[file_str] = str(cache_dest), line 184
IndexPut(idx, p, c) ==
    IF p \in {idx[i].o : i \in 1..Len(idx)}
    THEN [i \in 1..Len(idx) |-> IF idx[i].o = p THEN [o |-> p, c |-> c] ELSE idx[i]]
    ELSE Append(idx, [o |-> p, c |-> c])

\* A del that leaves the entry in the index.
IndexDel_Noop(idx, p) == idx

RECURSIVE IndexDel(_, _)
\* del self.cached_files[oldest_file], lines 201 and 206
IndexDel(idx, p) ==
    IF idx = <<>> THEN <<>>
    ELSE IF Head(idx).o = p THEN IndexDel(Tail(idx), p)
    ELSE <<Head(idx)>> \o IndexDel(Tail(idx), p)

\* save_cache, lines 132-136: the file is rewritten unless the write fails.
save_cache(o) == config' = IF o = "ok" THEN cached_files ELSE config

\* The timestamp an access now gets.
Now ==
    LET m == CHOOSE x \in {atime[p] : p \in Paths} :
                 \A p \in Paths : atime[p] <= x
    IN  Min(MaxTime, m + 1)

\* Outcomes of shutil.copy2: done, failed before writing, or cut short.
CopyOutcomes == IF faults THEN {"ok", "fail", "partial"} ELSE {"ok"}

\* --------------------------------------------------- cache_file
\* cache_file, lines 152-157: the RAM lookup
cf1(t) ==
    /\ At(t, "cf1")
    /\ RamGet(arg[t])
    /\ IF arg[t] \in Keys(cache) THEN Return(t) ELSE Goto(t, "cf2")
    /\ UNCHANGED <<max_size, mgrVars, envVars, ctxVars, raised, op, pre, hs, lastMig,
                   wasWhole, evictOK, events>>

\* cache_file without the index lookup of line 159.
cf2_NoIndexCheck(t) ==
    /\ At(t, "cf2")
    /\ Goto(t, "cf3")
    /\ UNCHANGED <<ramVars, mgrVars, envVars, ctxVars, raised, histVars>>

\* cache_file, lines 159-165: the file is in the index; read its cache file
\* and offer the bytes to the RAM tier.  open() raises to the caller.
cf2(t) ==
    /\ At(t, "cf2")
    /\ IF arg[t] \in IndexKeys
       THEN \E o \in Outcomes :
              LET f == ssd[IndexEntry(arg[t]).c] IN
              IF o = "ok" /\ f.kind = "plain"
              THEN /\ dlen' = [dlen EXCEPT ![t] = SizeOf(f)]
                   /\ atime' = [atime EXCEPT ![f.id] = Now]
                   /\ Goto(t, "add1")
                   /\ Note(t, "reread")
                   /\ UNCHANGED raised
              ELSE /\ Raise(t)
                   /\ Note(t, "fault_open")
                   /\ UNCHANGED <<dlen, atime>>
       ELSE /\ Goto(t, "cf3")
            /\ UNCHANGED <<dlen, atime, raised, events>>
    /\ UNCHANGED <<ramVars, mgrVars, config, origin, ssd, faults, avails, frees, total, arg, fsize, cdest,
                   cur, newsz, oldest, todo, histNoTrace>>

\* cache_file, lines 167-169: stat() raises to the caller
cf3(t) ==
    /\ At(t, "cf3")
    /\ \E o \in Outcomes :
         IF o = "ok" /\ Resolve(arg[t]).kind = "plain"
         THEN /\ fsize' = [fsize EXCEPT ![t] = SizeOf(Resolve(arg[t]))]
              /\ Call(t, "adj1", "cf4")
              /\ UNCHANGED <<raised, events>>
         ELSE /\ Raise(t)
              /\ Note(t, "fault_stat")
              /\ UNCHANGED fsize
    /\ UNCHANGED <<ramVars, mgrVars, envVars, arg, dlen, cdest, cur, newsz, oldest,
                   todo, histNoTrace>>

\* cache_file, lines 170-171: the first space check
cf4(t) ==
    /\ At(t, "cf4")
    /\ \E free \in frees :
         /\ hs' = IF t # "main" THEN hs
                  ELSE Append(hs, IF has_space(free, fsize[t]) THEN "true" ELSE "false")
         /\ IF has_space(free, fsize[t])
            THEN Goto(t, "cf6")
            ELSE Call(t, "cc1", "cf5")
    /\ UNCHANGED <<ramVars, mgrVars, envVars, ctxVars, raised, op, ret, pre, lastMig,
                   wasWhole, used, evictOK, events>>

\* cache_file that goes on to copy whatever the second check returns.
cf5_IgnoreRecheck(t) ==
    /\ At(t, "cf5")
    /\ \E free \in frees :
         hs' = IF t # "main" THEN hs
               ELSE Append(hs, IF has_space(free, fsize[t]) THEN "true" ELSE "false")
    /\ Goto(t, "cf6")
    /\ UNCHANGED <<ramVars, mgrVars, envVars, ctxVars, raised, op, ret, pre, lastMig,
                   wasWhole, used, evictOK, events>>

\* cache_file, lines 172-173: the check after clean_cache
cf5(t) ==
    /\ At(t, "cf5")
    /\ \E free \in frees :
         /\ hs' = IF t # "main" THEN hs
                  ELSE Append(hs, IF has_space(free, fsize[t]) THEN "true" ELSE "false")
         /\ IF has_space(free, fsize[t])
            THEN Goto(t, "cf6")
            ELSE Return(t)
    /\ UNCHANGED <<ramVars, mgrVars, envVars, ctxVars, raised, op, ret, pre, lastMig,
                   wasWhole, used, evictOK, events>>

\* cache_file, lines 176-179: read the file, offer the bytes to the RAM tier
cf6(t) ==
    /\ At(t, "cf6")
    /\ \E o \in Outcomes :
         LET f == Resolve(arg[t]) IN
         IF o = "ok" /\ f.kind = "plain"
         THEN /\ dlen' = [dlen EXCEPT ![t] = SizeOf(f)]
              /\ atime' = [atime EXCEPT ![f.id] = Now]
              /\ Call(t, "add1", "cf7")
              /\ UNCHANGED events
         ELSE /\ Goto(t, "cfx")
              /\ Note(t, "fault_read")
              /\ UNCHANGED <<dlen, atime>>
    /\ UNCHANGED <<ramVars, mgrVars, config, origin, ssd, faults, avails, frees, total, arg, fsize, cdest,
                   cur, newsz, oldest, todo, raised, histNoTrace>>

\* shutil.copy2(file_path, cache_dest): what cache path c holds afterwards.
\* A source that resolves to the destination itself is refused unwritten.
CopyResult(o, p, c) ==
    LET f == Resolve(p) IN
    IF f.kind # "plain" \/ origin[p] = Link(c) \/ o = "fail" THEN ssd[c]
    ELSE IF o = "ok" THEN Plain(f.id, f.whole)
    ELSE Plain(f.id, FALSE)

CopyDone(o, p, c) ==
    o = "ok" /\ Resolve(p).kind = "plain" /\ origin[p] # Link(c)

\* cache_file, lines 180-181: mkdir and copy2
cf7(t) ==
    /\ At(t, "cf7")
    /\ \E o \in CopyOutcomes :
         /\ ssd' = [ssd EXCEPT ![Dest(arg[t])] = CopyResult(o, arg[t], Dest(arg[t]))]
         /\ IF CopyDone(o, arg[t], Dest(arg[t]))
            THEN /\ Goto(t, "cf8")
                 /\ Note(t, "copy")
                 /\ wasWhole' = [wasWhole EXCEPT ![arg[t]] = Resolve(arg[t]).whole]
            ELSE /\ Goto(t, "cfx")
                 /\ Note(t, IF o = "partial" THEN "fault_copy_partial" ELSE "fault_copy")
                 /\ UNCHANGED wasWhole
    /\ UNCHANGED <<ramVars, mgrVars, config, origin, atime, faults, avails, frees, total, ctxVars, raised,
                   op, ret, pre, hs, lastMig, used, evictOK>>

\* cache_file, line 182: os.remove(file_path)
cf8(t) ==
    /\ At(t, "cf8")
    /\ \E o \in Outcomes :
         IF o = "ok" /\ origin[arg[t]].kind # "none"
         THEN /\ origin' = [origin EXCEPT ![arg[t]] = Absent]
              /\ Goto(t, "cf9")
              /\ Note(t, "remove")
         ELSE /\ Goto(t, "cfx")
              /\ Note(t, "fault_remove")
              /\ UNCHANGED origin
    /\ UNCHANGED <<ramVars, mgrVars, config, ssd, atime, faults, avails, frees, total, ctxVars, raised,
                   histNoTrace>>

\* cache_file, line 183: os.symlink(cache_dest, file_path)
cf9(t) ==
    /\ At(t, "cf9")
    /\ \E o \in Outcomes :
         IF o = "ok" /\ origin[arg[t]].kind = "none"
         THEN /\ origin' = [origin EXCEPT ![arg[t]] = Link(Dest(arg[t]))]
              /\ Goto(t, "cf10")
              /\ Note(t, "symlink")
         ELSE /\ Goto(t, "cfx")
              /\ Note(t, "fault_symlink")
              /\ UNCHANGED origin
    /\ UNCHANGED <<ramVars, mgrVars, config, ssd, atime, faults, avails, frees, total, ctxVars, raised,
                   histNoTrace>>

\* cache_file, line 184: record the index entry
cf10(t) ==
    /\ At(t, "cf10")
    /\ cached_files' = IndexPut(cached_files, arg[t], Dest(arg[t]))
    /\ Goto(t, "cf11")
    /\ UNCHANGED <<ramVars, cache_size_bytes, running, envVars, ctxVars, raised,
                   histVars>>

\* cache_file, lines 185-186: save_cache
cf11(t) ==
    /\ At(t, "cf11")
    /\ \E o \in Outcomes :
         /\ save_cache(o)
         /\ NoteAll(t, IF o = "ok" THEN {"migrated"} ELSE {"migrated", "fault_save"})
    /\ Return(t)
    /\ UNCHANGED <<ramVars, mgrVars, origin, ssd, atime, faults, avails, frees, total, ctxVars, raised,
                   histNoTrace>>

\* shutil.move(src, dst) across devices succeeds when src is a file and dst is
\* not a redirect to src itself; dst then holds src's content and src is gone.
MoveDone(o, c, p) ==
    o = "ok" /\ ssd[c].kind = "plain" /\ origin[p] # Link(c)

\* cache_file, lines 187-190: the handler of the migration's try block; the
\* move back is not guarded and raises to the caller.
cfx(t) ==
    /\ At(t, "cfx")
    /\ IF ssd[Dest(arg[t])].kind = "plain"
       THEN \E o \in Outcomes :
              IF MoveDone(o, Dest(arg[t]), arg[t])
              THEN /\ origin' = [origin EXCEPT ![arg[t]] = ssd[Dest(arg[t])]]
                   /\ ssd' = [ssd EXCEPT ![Dest(arg[t])] = Absent]
                   /\ Return(t)
                   /\ Note(t, "moved_back")
                   /\ UNCHANGED raised
              ELSE /\ Raise(t)
                   /\ Note(t, "fault_move_back")
                   /\ UNCHANGED <<origin, ssd>>
       ELSE /\ Return(t)
            /\ UNCHANGED <<origin, ssd, raised, events>>
    /\ UNCHANGED <<ramVars, mgrVars, config, atime, faults, avails, frees, total, ctxVars, histNoTrace>>

CacheFileStep(t) ==
    \/ cf1(t)
    \/ cf2(t)
    \/ cf3(t)
    \/ cf4(t)
    \/ cf5(t)
    \/ cf6(t)
    \/ cf7(t)
    \/ cf8(t)
    \/ cf9(t)
    \/ cf10(t)
    \/ cf11(t)
    \/ cfx(t)

\* -------------------------------------------------- clean_cache
\* Path(f).stat() of line 197 succeeds for every key of the index.
StatAll == \A p \in IndexKeys : Resolve(p).kind = "plain"

\* A selection that takes the first key of the index whatever its times.
OldestFile_First == cached_files[1].o

\* min(self.cached_files.keys(), key=st_atime), line 197: the first key, in
\* the dict's order, whose file has the smallest last-access time.
OldestFile ==
    LET t(i) == atime[Resolve(cached_files[i].o).id]
        i0 == CHOOSE i \in 1..Len(cached_files) :
                  /\ \A j \in 1..Len(cached_files) : t(i) <= t(j)
                  /\ \A j \in 1..(i - 1) : t(j) > t(i)
    IN  cached_files[i0].o

\* clean_cache, line 193
cc1(t) ==
    /\ At(t, "cc1")
    /\ oldest' = [oldest EXCEPT ![t] = 0]
    /\ Call(t, "trimA", "cc2")
    /\ hs' = IF t = "main" /\ hs # <<>> THEN Append(hs, "clean") ELSE hs
    /\ Note(t, "clean")
    /\ UNCHANGED <<ramVars, mgrVars, envVars, arg, dlen, fsize, cdest, cur, newsz,
                   todo, raised, op, ret, pre, lastMig, wasWhole, used, evictOK>>

\* clean_cache, line 194
cc2(t) ==
    /\ At(t, "cc2")
    /\ cur' = [cur EXCEPT ![t] = get_cache_size]
    /\ Goto(t, "cc3")
    /\ UNCHANGED <<ramVars, mgrVars, envVars, arg, dlen, fsize, cdest, newsz,
                   oldest, todo, raised, histVars>>

\* clean_cache, line 195: the loop test
cc3(t) ==
    /\ At(t, "cc3")
    /\ IF cur[t] > cache_size_bytes /\ cached_files # <<>>
       THEN Goto(t, "cc4")
       ELSE Return(t)
    /\ UNCHANGED <<ramVars, mgrVars, envVars, ctxVars, raised, histVars>>

\* clean_cache, line 197: select the oldest entry.  A stat() that fails goes
\* to the handler; min() of an index emptied meanwhile raises ValueError,
\* which the handler does not catch.
cc4(t) ==
    /\ At(t, "cc4")
    /\ IF cached_files = <<>>
       THEN /\ Raise(t)
            /\ Note(t, "valueerror")
            /\ UNCHANGED oldest
       ELSE \E o \in Outcomes :
              /\ UNCHANGED raised
              /\ IF o = "ok" /\ StatAll
                 THEN /\ oldest' = [oldest EXCEPT ![t] = OldestFile]
                      /\ Goto(t, "cc5")
                      /\ UNCHANGED events
                 ELSE /\ Goto(t, "ccx")
                      /\ Note(t, "fault_atime")
                      /\ UNCHANGED oldest
    /\ UNCHANGED <<ramVars, mgrVars, envVars, arg, dlen, fsize, cdest, cur, newsz,
                   todo, histNoTrace>>

\* clean_cache, lines 198-199: look the cache path up (KeyError is not caught
\* by the handler), then os.unlink(oldest_file)
cc5(t) ==
    /\ At(t, "cc5")
    /\ IF oldest[t] \notin IndexKeys
       THEN /\ Raise(t)
            /\ Note(t, "keyerror")
            /\ UNCHANGED <<origin, cdest>>
       ELSE \E o \in Outcomes :
              /\ cdest' = [cdest EXCEPT ![t] = IndexEntry(oldest[t]).c]
              /\ UNCHANGED raised
              /\ IF o = "ok" /\ origin[oldest[t]].kind # "none"
                 THEN /\ origin' = [origin EXCEPT ![oldest[t]] = Absent]
                      /\ Goto(t, "cc6")
                      /\ Note(t, "unlink")
                 ELSE /\ Goto(t, "ccx")
                      /\ Note(t, "fault_unlink")
                      /\ UNCHANGED origin
    /\ UNCHANGED <<ramVars, mgrVars, config, ssd, atime, faults, avails, frees, total, arg, dlen, fsize,
                   cur, newsz, oldest, todo, histNoTrace>>

\* A move back that copies the cache file and does not remove it.
cc6_CopyBack(t) ==
    /\ At(t, "cc6")
    /\ \E o \in Outcomes :
         IF MoveDone(o, cdest[t], oldest[t])
         THEN /\ origin' = [origin EXCEPT ![oldest[t]] = ssd[cdest[t]]]
              /\ Goto(t, "cc7")
              /\ Note(t, "move")
         ELSE /\ Goto(t, "ccx")
              /\ Note(t, "fault_move")
              /\ UNCHANGED origin
    /\ UNCHANGED <<ramVars, mgrVars, config, ssd, atime, faults, avails, frees, total, ctxVars,
                   raised, histNoTrace>>

\* clean_cache, line 200: shutil.move(cache_dest, oldest_file)
cc6(t) ==
    /\ At(t, "cc6")
    /\ \E o \in Outcomes :
         IF MoveDone(o, cdest[t], oldest[t])
         THEN /\ origin' = [origin EXCEPT ![oldest[t]] = ssd[cdest[t]]]
              /\ ssd' = [ssd EXCEPT ![cdest[t]] = Absent]
              /\ Goto(t, "cc7")
              /\ Note(t, "move")
         ELSE /\ Goto(t, "ccx")
              /\ Note(t, "fault_move")
              /\ UNCHANGED <<origin, ssd>>
    /\ UNCHANGED <<ramVars, mgrVars, config, atime, faults, avails, frees, total, ctxVars, raised,
                   histNoTrace>>

\* clean_cache, line 201: del self.cached_files[oldest_file]
cc7(t) ==
    /\ At(t, "cc7")
    /\ IF oldest[t] \in IndexKeys
       THEN /\ cached_files' = IndexDel(cached_files, oldest[t])
            /\ Goto(t, "cc8")
            /\ Note(t, "evicted")
            /\ UNCHANGED raised
       ELSE /\ Raise(t)
            /\ Note(t, "keyerror")
            /\ UNCHANGED cached_files
    /\ UNCHANGED <<ramVars, cache_size_bytes, running, envVars, ctxVars,
                   histNoTrace>>

\* clean_cache, line 202: save_cache
cc8(t) ==
    /\ At(t, "cc8")
    /\ \E o \in Outcomes :
         /\ save_cache(o)
         /\ NoteAll(t, IF o = "ok" THEN {} ELSE {"fault_save"})
    /\ Goto(t, "cc9")
    /\ UNCHANGED <<ramVars, mgrVars, origin, ssd, atime, faults, avails, frees, total, ctxVars, raised,
                   histNoTrace>>

\* clean_cache, line 203
cc9(t) ==
    /\ At(t, "cc9")
    /\ cur' = [cur EXCEPT ![t] = get_cache_size]
    /\ Goto(t, "cc3")
    /\ UNCHANGED <<ramVars, mgrVars, envVars, arg, dlen, fsize, cdest, newsz,
                   oldest, todo, raised, histVars>>

\* clean_cache, lines 204-206: the handler of the loop's try block.  The del
\* names oldest_file, which is unbound when line 197 itself raised in the
\* first iteration (UnboundLocalError) and names an entry already deleted when
\* it raised in a later one (KeyError); neither is caught.
ccx(t) ==
    /\ At(t, "ccx")
    /\ IF oldest[t] \in IndexKeys
       THEN /\ cached_files' = IndexDel(cached_files, oldest[t])
            /\ Goto(t, "cc3")
            /\ Note(t, "dropped")
            /\ UNCHANGED raised
       ELSE /\ Raise(t)
            /\ Note(t, "handler_raised")
            /\ UNCHANGED cached_files
    /\ UNCHANGED <<ramVars, cache_size_bytes, running, envVars, ctxVars,
                   histNoTrace>>

CleanCacheStep(t) ==
    \/ adj1(t)
    \/ adj2(t)
    \/ cc1(t)
    \/ cc2(t)
    \/ cc3(t)
    \/ cc4(t)
    \/ cc5(t)
    \/ cc6(t)
    \/ cc7(t)
    \/ cc8(t)
    \/ cc9(t)
    \/ ccx(t)

\* ------------------------------------------------ the public calls
\* The methods called one at a time by a single context: each call begins
\* when the previous one has returned or raised, with "fin" the caller's
\* frame, where the call's result is observed.
Snapshot(name, k) ==
    [cache |-> IF name \in {"add", "get"} THEN cache ELSE <<>>,
     cached_files |-> IF name = "cache_file" THEN cached_files ELSE <<>>,
     file |-> IF name = "cache_file" THEN origin[k] ELSE Absent,
     budget |-> IF name = "adjust_cache_size" THEN cache_size_bytes ELSE 0]

NoSnapshot == [cache |-> <<>>, cached_files |-> <<>>, file |-> Absent, budget |-> 0]

Begin(name, k, entry) ==
    /\ stack["main"] = <<>>
    /\ stack' = [stack EXCEPT !["main"] = <<entry, "fin">>]
    /\ op' = [name |-> name, arg |-> k]
    /\ arg' = [arg EXCEPT !["main"] = k]
    /\ pre' = Snapshot(name, k)
    /\ UNCHANGED <<ramVars, mgrVars, envVars, fsize, cdest, cur, newsz, oldest,
                   todo, raised, ret, events, hs, lastMig, wasWhole, used, evictOK>>

CallAdd ==
    \E k \in Paths :
        /\ Begin("add", k, "add1")
        /\ dlen' = [dlen EXCEPT !["main"] = FileSize(k)]

CallGet == \E k \in Paths : Begin("get", k, "get1") /\ UNCHANGED dlen

CallRemove == \E k \in Paths : Begin("remove", k, "remove1") /\ UNCHANGED dlen

CallUpdateMaxSize == Begin("update_max_size", 0, "ums") /\ UNCHANGED dlen

CallCacheFile == \E p \in Paths : Begin("cache_file", p, "cf1") /\ UNCHANGED dlen

CallCleanCache == Begin("clean_cache", 0, "cc1") /\ UNCHANGED dlen

CallAdjustCacheSize == Begin("adjust_cache_size", 0, "adj1") /\ UNCHANGED dlen

Zero == [t \in Threads |-> 0]

\* The caller has the result: the call's locals and its history are dropped.
fin(t) ==
    /\ At(t, "fin")
    /\ stack' = [stack EXCEPT ![t] = <<>>]
    /\ raised' = [raised EXCEPT ![t] = FALSE]
    /\ arg' = [arg EXCEPT ![t] = 0]
    /\ dlen' = [dlen EXCEPT ![t] = 0]
    /\ fsize' = [fsize EXCEPT ![t] = 0]
    /\ cdest' = [cdest EXCEPT ![t] = 0]
    /\ cur' = [cur EXCEPT ![t] = 0]
    /\ newsz' = [newsz EXCEPT ![t] = 0]
    /\ oldest' = [oldest EXCEPT ![t] = 0]
    /\ lastMig' = IF "migrated" \in events THEN op.arg ELSE 0
    /\ op' = [name |-> "none", arg |-> 0]
    /\ ret' = "none"
    /\ pre' = NoSnapshot
    /\ events' = events \cap Sticky
    /\ hs' = <<>>
    /\ UNCHANGED <<ramVars, mgrVars, envVars, todo, wasWhole, used, evictOK>>

\* The state __init__ leaves (lines 68-78) on a first run: nothing migrated,
\* no index file, an empty RAM tier sized from the memory then available and
\* a budget computed from the space then free.
InitCommon ==
    /\ cache = <<>>
    /\ \E avail \in avails : max_size = get_available_ram(avail)
    /\ cached_files = <<>>
    /\ \E free \in frees : cache_size_bytes = set_initial_cache_size(free)
    /\ running = TRUE
    /\ config = <<>>
    /\ origin = [p \in Paths |-> Plain(p, TRUE)]
    /\ ssd = [p \in Paths |-> Absent]
    /\ atime = [p \in Paths |-> 0]
    /\ arg = Zero /\ dlen = Zero /\ fsize = Zero /\ cdest = Zero
    /\ cur = Zero /\ newsz = Zero /\ oldest = Zero
    /\ raised = [t \in Threads |-> FALSE]
    /\ ret = "none"
    /\ pre = NoSnapshot
    /\ events = {}
    /\ hs = <<>>
    /\ lastMig = 0
    /\ wasWhole = [p \in Paths |-> TRUE]
    /\ used = <<>>
    /\ evictOK = TRUE

\* The RAM tier on its own: add, get, remove and update_max_size in any
\* order, under every available-memory value.
RamInit ==
    /\ avails = AvailVals
    /\ frees = FreeVals
    /\ total = SsdTotal
    /\ InitCommon
    /\ op = [name |-> "none", arg |-> 0]
    /\ faults = TRUE
    /\ stack = [t \in Threads |-> <<>>]
    /\ todo = <<>>

RamNext ==
    \/ CallAdd
    \/ CallGet
    \/ CallRemove
    \/ CallUpdateMaxSize
    \/ RamStep("main")
    \/ get1("main")
    \/ remove1("main")
    \/ fin("main")

RamSpec == RamInit /\ [][RamNext]_vars

\* The manager: cache_file, clean_cache and adjust_cache_size in any order,
\* every filesystem call free to fail.
Init ==
    /\ avails = MgrAvailVals
    /\ frees = FreeVals
    /\ total = SsdTotal
    /\ InitCommon
    /\ op = [name |-> "none", arg |-> 0]
    /\ faults = TRUE
    /\ stack = [t \in Threads |-> <<>>]
    /\ todo = <<>>

Next ==
    \/ CallCacheFile
    \/ CallCleanCache
    \/ CallAdjustCacheSize
    \/ RamStep("main")
    \/ CacheFileStep("main")
    \/ CleanCacheStep("main")
    \/ fin("main")

Spec == Init /\ [][Next]_vars

\* ------------------------------------------- run and monitor_system
\* run, lines 215-218: start the monitor thread
run1(t) ==
    /\ At(t, "run1")
    /\ stack' = [stack EXCEPT ![t] = <<"run2">>, !["mon"] = <<"mon1">>]
    /\ UNCHANGED <<ramVars, mgrVars, envVars, ctxVars, raised, histVars>>

\* run, lines 221-227: the walk hands the next tracked file to cache_file;
\* the flag is read when the walk yields a directory (line 222), which for
\* the one directory of the model is before its first file.
run2(t) ==
    /\ At(t, "run2")
    /\ IF todo = <<>> \/ (Len(todo) = Cardinality(Paths) /\ ~running)
       THEN /\ Goto(t, "run3")
            /\ UNCHANGED <<arg, todo>>
       ELSE /\ Call(t, "cf1", "run2")
            /\ arg' = [arg EXCEPT ![t] = Head(todo)]
            /\ todo' = Tail(todo)
    /\ dlen' = [dlen EXCEPT ![t] = 0]
    /\ fsize' = [fsize EXCEPT ![t] = 0]
    /\ cdest' = [cdest EXCEPT ![t] = 0]
    /\ cur' = [cur EXCEPT ![t] = 0]
    /\ newsz' = [newsz EXCEPT ![t] = 0]
    /\ oldest' = [oldest EXCEPT ![t] = 0]
    /\ events' = {}
    /\ hs' = <<>>
    /\ ret' = "none"
    /\ UNCHANGED <<ramVars, mgrVars, envVars, raised, op, pre, lastMig, wasWhole,
                   used, evictOK>>

\* run, line 228: the eviction pass after the walk
run3(t) ==
    /\ At(t, "run3")
    /\ Call(t, "cc1", "run4")
    /\ UNCHANGED <<ramVars, mgrVars, envVars, ctxVars, raised, histVars>>

\* run, lines 232-233: idle until the flag is cleared
run4(t) ==
    /\ At(t, "run4")
    /\ ~running
    /\ Return(t)
    /\ UNCHANGED <<ramVars, mgrVars, envVars, ctxVars, raised, histVars>>

\* monitor_system, lines 209-210
mon1(t) ==
    /\ At(t, "mon1")
    /\ IF running THEN Call(t, "adj1", "mon2") ELSE Return(t)
    /\ cdest' = [cdest EXCEPT ![t] = 0]
    /\ cur' = [cur EXCEPT ![t] = 0]
    /\ newsz' = [newsz EXCEPT ![t] = 0]
    /\ oldest' = [oldest EXCEPT ![t] = 0]
    /\ UNCHANGED <<ramVars, mgrVars, envVars, arg, dlen, fsize, todo, raised,
                   histVars>>

\* monitor_system, lines 211-212: update_max_size, then sleep
mon2(t) ==
    /\ At(t, "mon2")
    /\ Call(t, "ums", "mon1")
    /\ cdest' = [cdest EXCEPT ![t] = 0]
    /\ cur' = [cur EXCEPT ![t] = 0]
    /\ newsz' = [newsz EXCEPT ![t] = 0]
    /\ oldest' = [oldest EXCEPT ![t] = 0]
    /\ UNCHANGED <<ramVars, mgrVars, envVars, arg, dlen, fsize, todo, raised,
                   histVars>>

\* The program after __init__: the sweep context in run(), the monitor not
\* yet started, the walk about to yield the files in some order.
ConcInit ==
    /\ avails = MgrAvailVals
    /\ frees = FreeVals
    /\ total = SsdTotal
    /\ InitCommon
    /\ op = [name |-> "none", arg |-> 0]
    /\ faults = TRUE
    /\ stack = [t \in Threads |-> IF t = "main" THEN <<"run1">> ELSE <<>>]
    /\ todo \in {<<1, 2>>, <<2, 1>>}

ConcNext ==
    \/ run1("main")
    \/ run2("main")
    \/ run3("main")
    \/ \E t \in Threads :
         \/ RamStep(t)
         \/ CleanCacheStep(t)
    \/ CacheFileStep("main")
    \/ mon1("mon")
    \/ mon2("mon")

ConcSpec == ConcInit /\ [][ConcNext]_vars

\* ------------------------------------------------------ properties
\* The public call `name` of the sweep context has just returned or raised.
Returned(name) == At("main", "fin") /\ op.name = name

RamCalls == {"add", "get", "remove", "update_max_size"}

\* C1: when a call of the RAM tier returns, the payload sizes stored sum to
\* at most the capacity.
C1_RamSizeBound ==
    (At("main", "fin") /\ op.name \in RamCalls) => SumLen(cache) <= max_size

\* C2: get on a present key and a successful add leave the key most recently
\* used, and every eviction of trim_cache takes the key least recently used.
C2_RecencyOrder ==
    /\ evictOK
    /\ (Returned("get") /\ ret = "hit") => cache[Len(cache)].path = op.arg
    /\ (Returned("add") /\ ret = "true") => cache[Len(cache)].path = op.arg

\* get has moved the least recently used of two entries to the end.
C2_Witness ==
    /\ Returned("get") /\ ret = "hit"
    /\ Len(pre.cache) = 2 /\ pre.cache[1].path = op.arg
    /\ cache[2].path = op.arg

RECURSIVE TrimmedTo(_, _)
\* Entries dropped from the least recently used end until the rest fits n.
TrimmedTo(c, n) ==
    IF c # <<>> /\ SumLen(c) > n THEN TrimmedTo(Tail(c), n) ELSE c

\* C3, as claimed: an add refused for size leaves the stored entries and
\* their order as they were.
C3_OversizeLeavesTierUnchanged ==
    (Returned("add") /\ ret = "false") => (~raised["main"] /\ cache = pre.cache)

\* C3, amended: add fails, without raising, exactly when the payload is larger
\* than the recomputed capacity; it then inserts nothing, and the entries left
\* are the previous ones trimmed, least recently used first, to that capacity
\* (all of them, in their order, when they still fit).
C3_OversizeTrimsOnly ==
    Returned("add") =>
        /\ ~raised["main"]
        /\ (ret = "false") = (FileSize(op.arg) > max_size)
        /\ ret = "false" => cache = TrimmedTo(pre.cache, max_size)

\* An add refused after the capacity shrank: one of two entries was evicted.
C3_Witness ==
    /\ Returned("add") /\ ret = "false"
    /\ Len(pre.cache) = 2 /\ Len(cache) = 1

\* A step of the first migration (lines 176-183) failed in the call.
MigrationFaults ==
    {"fault_read", "fault_copy", "fault_copy_partial", "fault_remove",
     "fault_symlink"}

\* The call went as far as copying, deleting or creating a redirect.
MigrationSteps ==
    {"copy", "fault_copy", "fault_copy_partial", "remove", "fault_remove",
     "symlink", "fault_symlink"}

\* C4: when a step of the first migration of a plain file fails, cache_file
\* returns without raising, with the origin path holding the file as it was
\* and no index entry for it.
C4_MigrationRollback ==
    (Returned("cache_file") /\ pre.file.kind = "plain"
        /\ events \cap MigrationFaults # {}) =>
        /\ ~raised["main"]
        /\ origin[op.arg] = pre.file
        /\ op.arg \notin IndexKeys

\* No cache_file or clean_cache call is in progress.
Quiescent == stack["main"] = <<>> \/ At("main", "fin")

\* C5: between calls, no two index entries share a cache path, and for every
\* entry the origin path holds a redirect to the entry's cache path, which
\* holds the file's content as it was migrated.
C5_IndexConsistency ==
    Quiescent =>
        /\ \A i, j \in 1..Len(cached_files) :
               cached_files[i].c = cached_files[j].c => i = j
        /\ \A i \in 1..Len(cached_files) :
               LET e == cached_files[i] IN
               /\ origin[e.o] = Link(e.c)
               /\ ssd[e.c] = Plain(e.o, wasWhole[e.o])

\* A migration has failed and been rolled back while another file is in the
\* index.
C5_Witness ==
    /\ Returned("cache_file")
    /\ Len(cached_files) = 1
    /\ events \cap MigrationFaults # {}

\* C7: a failure while an entry is selected or evicted never leaves
\* clean_cache as an exception: the handler always has the selected entry to
\* drop from the index.
C7_EvictionUnderFailure ==
    /\ Returned("clean_cache") => ~raised["main"]
    /\ At("main", "ccx") => oldest["main"] \in IndexKeys

\* C8: once clean_cache has evicted an entry with no failure (unlink, move and
\* del done), the origin path holds a plain file with the content the file had
\* when it was migrated, the cache path holds nothing and the index has no
\* entry for it.
C8_RoundTrip ==
    (At("main", "cc8") \/ At("main", "cc9")) =>
        LET p == oldest["main"] IN
        /\ origin[p] = Plain(p, wasWhole[p])
        /\ ssd[cdest["main"]] = Absent
        /\ p \notin IndexKeys

\* clean_cache has just moved a migrated file back, its content complete.
C8_Witness ==
    /\ At("main", "cc9")
    /\ op.name = "clean_cache"
    /\ origin[oldest["main"]] = Plain(oldest["main"], TRUE)
    /\ "move" \in events

\* C9: a cache_file call right after the call that migrated the same path
\* copies, deletes and links nothing and leaves the index as it found it,
\* with one entry for the path.
C9_IdempotentPromotion ==
    (op.name = "cache_file" /\ lastMig = op.arg) =>
        /\ events \cap MigrationSteps = {}
        /\ cached_files = pre.cached_files
        /\ Cardinality({i \in 1..Len(cached_files) : cached_files[i].o = op.arg}) = 1

\* The second call found the payload absent from the RAM tier and re-read
\* the cache file.
C9_Witness ==
    /\ Returned("cache_file") /\ lastMig = op.arg
    /\ "reread" \in events

\* C10: the copy of a first migration is reached only after a has_space that
\* returned true; after a first false, clean_cache is entered once and
\* has_space asked once more; after a second false the call returns without
\* raising, having copied, deleted and linked nothing, the file and the index
\* as it found them.
C10_SpaceCheckProtocol ==
    /\ hs \in {<<>>, <<"true">>, <<"false">>, <<"false", "clean">>,
               <<"false", "clean", "true">>, <<"false", "clean", "false">>}
    /\ At("main", "cf5") => hs = <<"false", "clean">>
    /\ (At("main", "cf7") \/ events \cap MigrationSteps # {}) =>
           (hs # <<>> /\ hs[Len(hs)] = "true")
    /\ (Returned("cache_file") /\ hs = <<"false", "clean", "false">>) =>
           /\ ~raised["main"]
           /\ events \cap MigrationSteps = {}
           /\ origin[op.arg] = pre.file
           /\ op.arg \notin IndexKeys

\* Both checks failed and the call returned, the file still plain.
C10_Witness ==
    /\ Returned("cache_file")
    /\ hs = <<"false", "clean", "false">>
    /\ origin[op.arg] = Plain(op.arg, TRUE)

\* Context t is part-way through an operation of the RAM tier: trim_cache
\* past its first sum, or add past update_max_size.
InRamTier(t) ==
    stack[t] # <<>> /\ Head(stack[t]) \in {"trimB", "trimC", "add2", "add3"}

\* Context t is part-way through a read-modify-write of the index: the entry
\* looked up and not yet deleted, or the index changed and not yet saved.
InIndexUpdate(t) ==
    stack[t] # <<>> /\ Head(stack[t]) \in {"cf11", "cc6", "cc7", "cc8"}

\* Context t has compared the active budget and not yet replaced it.
InBudgetUpdate(t) == At(t, "adj2")

\* C6: the two contexts are never both inside an operation of the RAM tier,
\* nor both inside an index update, nor both inside a budget update.
C6_ExclusiveAccess ==
    /\ ~(InRamTier("main") /\ InRamTier("mon"))
    /\ ~(InIndexUpdate("main") /\ InIndexUpdate("mon"))
    /\ ~(InBudgetUpdate("main") /\ InBudgetUpdate("mon"))


\* ------------------------------------------------ has_space on its own
\* Values of free space around the reserve (5% of the capacity) plus a
\* file's size, GiB; each behaviour reads one of them.
HsFrees == {10, 14, 15, 16, 17, 20, 40}

RECURSIVE IndexOver(_)
\* The index after the files of S were migrated.
IndexOver(S) ==
    IF S = {} THEN <<>>
    ELSE LET q == CHOOSE x \in S : TRUE
         IN  <<[o |-> q, c |-> Dest(q)]>> \o IndexOver(S \ {q})

\* cache_file(p) has reached its first has_space (line 170): any of the other
\* files already migrated, the budget any value a computation can give, free
\* space and the file's size any of their values.
HasSpaceInit ==
    /\ avails = MgrAvailVals
    /\ total = SsdTotal
    /\ \E f \in HsFrees : frees = {f}
    /\ faults = TRUE
    /\ cache = <<>>
    /\ \E avail \in avails : max_size = get_available_ram(avail)
    /\ running = TRUE
    /\ \E p \in Paths, M \in SUBSET Paths :
         /\ p \notin M
         /\ cached_files = IndexOver(M)
         /\ origin = [q \in Paths |-> IF q \in M THEN Link(Dest(q)) ELSE Plain(q, TRUE)]
         /\ ssd = [q \in Paths |-> IF q \in M THEN Plain(q, TRUE) ELSE Absent]
         /\ atime = [q \in Paths |-> IF q \in M \/ q = p THEN 1 ELSE 0]
         /\ arg = [Zero EXCEPT !["main"] = p]
         /\ fsize = [Zero EXCEPT !["main"] = FileSize(p)]
         /\ op = [name |-> "cache_file", arg |-> p]
         /\ pre = [cache |-> <<>>, cached_files |-> cached_files, file |-> origin[p],
                  budget |-> 0]
    /\ config = cached_files
    /\ cache_size_bytes \in
           {set_initial_cache_size(f) : f \in HsFrees} \cup {new_size(f) : f \in HsFrees}
    /\ stack = [t \in Threads |-> IF t = "main" THEN <<"cf4", "fin">> ELSE <<>>]
    /\ dlen = Zero /\ cdest = Zero /\ cur = Zero /\ newsz = Zero /\ oldest = Zero
    /\ todo = <<>>
    /\ raised = [t \in Threads |-> FALSE]
    /\ ret = "miss"
    /\ events = {}
    /\ hs = <<>>
    /\ lastMig = 0
    /\ wasWhole = [q \in Paths |-> TRUE]
    /\ used = <<>>
    /\ evictOK = TRUE

HasSpaceNext == cf4("main")

HasSpaceSpec == HasSpaceInit /\ [][HasSpaceNext]_vars

\* The predicate has_space is specified to compute: the reserve of 5% of the
\* capacity is left (boundary included) and the file fits the budget.
HasSpaceReference(free, tot, usage, budget, size) ==
    /\ (free - size) * 100 >= tot * 5
    /\ usage + size <= budget

\* The first has_space of the call has just answered.
HasSpaceAnswered ==
    /\ op.name = "cache_file"
    /\ Len(hs) = 1
    /\ At("main", "cf6") \/ At("main", "cc1")

\* C11: has_space(size) answers true exactly when free space less the size
\* leaves at least 5% of the capacity (boundary included) and usage plus the
\* size is at most the active budget.
C11_HasSpacePredicate ==
    HasSpaceAnswered =>
        \A free \in frees :
            (hs[1] = "true") =
                HasSpaceReference(free, total, get_cache_size, cache_size_bytes,
                                  fsize["main"])


\* ------------------------------------------- the budget on its own
\* Readings of psutil.disk_usage, GiB: a device of SsdTotal with free space on
\* both sides of the low-space threshold (10% of the capacity), and one ten
\* times larger, where half of the free space passes MAX_CACHE_GB.
BudgetFrees(tot) ==
    IF tot = SsdTotal THEN {8, 14, 15, 16, 17, 20, 40}
    ELSE {100, 150, 1000, 1600}

\* Free space changes between two calls of the manager.
DiskChanges ==
    /\ stack["main"] = <<>>
    /\ \E f \in BudgetFrees(total) : frees' = {f}
    /\ frees' # frees
    /\ UNCHANGED <<ramVars, mgrVars, config, origin, ssd, atime, faults, avails,
                   total, stack, ctxVars, raised, histVars>>

\* __init__ (lines 68-78) has just returned to its caller: the budget is the
\* one set_initial_cache_size computed from the free space read.
BudgetInit ==
    /\ avails = MgrAvailVals
    /\ total \in {SsdTotal, 10 * SsdTotal}
    /\ \E f \in BudgetFrees(total) : frees = {f}
    /\ InitCommon
    /\ op = [name |-> "__init__", arg |-> 0]
    /\ faults = TRUE
    /\ stack = [t \in Threads |-> IF t = "main" THEN <<"fin">> ELSE <<>>]
    /\ todo = <<>>

\* adjust_cache_size called again and again, free space changing in between;
\* nothing is migrated, so the eviction pass finds nothing to evict.
BudgetNext ==
    \/ DiskChanges
    \/ CallAdjustCacheSize
    \/ adj1("main")
    \/ adj2("main")
    \/ cc1("main")
    \/ trimA("main")
    \/ trimB("main")
    \/ cc2("main")
    \/ cc3("main")
    \/ fin("main")

BudgetSpec == BudgetInit /\ [][BudgetNext]_vars

\* C12: the active budget, as the constructor sets it and as every
\* recomputation leaves it, lies between the configured minimum and maximum.
C12_BudgetRange ==
    /\ MIN_CACHE_GB * GiB <= cache_size_bytes
    /\ cache_size_bytes <= MAX_CACHE_GB * GiB

\* A recomputation has replaced the budget by the maximum.
C12_Witness ==
    /\ Returned("adjust_cache_size")
    /\ pre.budget # cache_size_bytes
    /\ cache_size_bytes = MAX_CACHE_GB * GiB

\* The budget a computation is specified to propose from free space.
Proposal(free) ==
    IF free * 10 < total
    THEN (free * 8) \div 10
    ELSE (free * DEFAULT_CACHE_PERCENT_TENTHS) \div 10

\* adjust_cache_size has computed new_size (line 117) in the call in progress.
Recomputed ==
    /\ op.name = "adjust_cache_size"
    /\ stack["main"] # <<>>
    /\ ~At("main", "adj1")

\* C13: the constructor and every recomputation propose 0.8 of the free space
\* when less than 10% of the capacity is free and the configured percent of it
\* otherwise; the budget computed is that proposal clamped.
C13_LowSpaceFallback ==
    \A free \in frees :
        /\ Returned("__init__") =>
               /\ proposed_size(free) = Proposal(free)
               /\ cache_size_bytes = Clamp(Proposal(free))
        /\ Recomputed =>
               /\ proposed_new_size(free) = Proposal(free)
               /\ newsz["main"] = Clamp(Proposal(free))


\* C18: a recomputation replaces the active budget by the value it computed
\* exactly when the two differ by more than 1 GiB; the budget replaced,
\* clean_cache is entered at once and has run when the recomputation returns;
\* the budget kept, no clean_cache runs.
C18_ReadoptionRule ==
    /\ (op.name = "adjust_cache_size" /\ At("main", "cc1")) =>
           cache_size_bytes = newsz["main"]
    /\ (Returned("adjust_cache_size") /\ ~raised["main"]) =>
           LET n == newsz["main"] IN
           IF n - pre.budget > GiB \/ pre.budget - n > GiB
           THEN /\ cache_size_bytes = n
                /\ "clean" \in events
           ELSE /\ cache_size_bytes = pre.budget
                /\ "clean" \notin events

\* A recomputation has kept the budget, the new value exactly 1 GiB away.
C18_Witness ==
    /\ Returned("adjust_cache_size")
    /\ newsz["main"] - cache_size_bytes = GiB
    /\ cache_size_bytes = pre.budget


\* The monitor thread was started and its loop has ended.
MonitorEnded == stack["mon"] = <<>> /\ ~At("main", "run1")

\* C14: the monitor's loop ends only once the flag is cleared; an exception
\* in adjust_cache_size (with its clean_cache) or in update_max_size does not
\* end it.
C14_MonitorResilience == MonitorEnded => ~running


\* A filesystem call of cache_file failed in the call in progress: the read
\* of the cache file (index hit), the size lookup, or a step of the migration
\* or of its rollback.
CacheFileFaults ==
    MigrationFaults \cup {"fault_open", "fault_stat", "fault_move_back"}

\* An exception has left run(): the walk and the final clean_cache are
\* abandoned (the handler of lines 239-243 idles for ever).
SweepAborted == stack["main"] = <<>> /\ raised["main"]

\* C15: a filesystem call that fails while cache_file processes a file does
\* not abort the sweep: run() goes on with the remaining files and the final
\* clean_cache.
C15_SweepResilience ==
    events \cap CacheFileFaults # {} => ~SweepAborted


\* ------------------------------- the two contexts, no call failing
\* The program after __init__ on a filesystem whose calls never fail on their
\* own: a call fails only when the file it names is not there.
QuietInit ==
    /\ avails = MgrAvailVals
    /\ frees = FreeVals
    /\ total = SsdTotal
    /\ InitCommon
    /\ op = [name |-> "none", arg |-> 0]
    /\ faults = FALSE
    /\ stack = [t \in Threads |-> IF t = "main" THEN <<"run1">> ELSE <<>>]
    /\ todo \in {<<1, 2>>, <<2, 1>>}

\* The steps of ConcNext such a filesystem leaves reachable: the migration
\* never fails, so its handler never runs.
QuietNext ==
    \/ run1("main")
    \/ run2("main")
    \/ run3("main")
    \/ \E t \in Threads :
         \/ RamStep(t)
         \/ CleanCacheStep(t)
    \/ cf1("main")
    \/ cf2("main")
    \/ cf3("main")
    \/ cf4("main")
    \/ cf5("main")
    \/ cf6("main")
    \/ cf7("main")
    \/ cf8("main")
    \/ cf9("main")
    \/ cf10("main")
    \/ cf11("main")
    \/ mon1("mon")
    \/ mon2("mon")

QuietSpec == QuietInit /\ [][QuietNext]_vars

\* Context t has selected an entry to evict and not yet deleted it.
Evicting(t) ==
    stack[t] # <<>> /\ Head(stack[t]) \in {"cc5", "cc6", "cc7"}

\* The content of file p is a real file at its origin path or its cache path.
ContentKept(p) ==
    \/ origin[p].kind = "plain" /\ origin[p].id = p
    \/ ssd[Dest(p)].kind = "plain" /\ ssd[Dest(p)].id = p

\* C20: with no filesystem call failing on its own, under every interleaving
\* of the monitor with the sweep, no entry is being evicted by both contexts,
\* neither context raises, and every file's content is at its origin path or
\* at its cache path.
C20_NoContentLoss ==
    /\ ~(Evicting("main") /\ Evicting("mon") /\ oldest["main"] = oldest["mon"])
    /\ \A t \in Threads : ~raised[t]
    /\ \A p \in Paths : ContentKept(p)


\* ------------------------------------------------------- shutdown
\* The flag is cleared while run() is under way.  Nothing in the source does
\* it (self.running is only ever assigned True, line 72): it is done from
\* outside, by whoever holds the manager.
Stop ==
    /\ running
    /\ ~At("main", "run1")
    /\ running' = FALSE
    /\ UNCHANGED <<ramVars, cached_files, cache_size_bytes, envVars, stack, ctxVars,
                   raised, histVars>>

\* The steps of the sweep context, the idle loop of lines 232-233 included.
MainStep ==
    \/ run1("main")
    \/ run2("main")
    \/ run3("main")
    \/ run4("main")
    \/ RamStep("main")
    \/ CleanCacheStep("main")
    \/ cf1("main")
    \/ cf2("main")
    \/ cf3("main")
    \/ cf4("main")
    \/ cf5("main")
    \/ cf6("main")
    \/ cf7("main")
    \/ cf8("main")
    \/ cf9("main")
    \/ cf10("main")
    \/ cf11("main")

\* The steps of the monitor thread.
MonStep ==
    \/ mon1("mon")
    \/ mon2("mon")
    \/ RamStep("mon")
    \/ CleanCacheStep("mon")

StopNext == MainStep \/ MonStep \/ Stop

\* Each thread keeps being scheduled: a call that can return does return.
StopSpec ==
    QuietInit /\ [][StopNext]_vars /\ WF_vars(MainStep) /\ WF_vars(MonStep)

\* run() has returned and the monitor thread has ended.  A context that an
\* exception took out of run() is in the loop of lines 242-243, which never
\* ends.
Stopped ==
    /\ stack["main"] = <<>> /\ ~raised["main"]
    /\ stack["mon"] = <<>>

Phase ==
    IF running THEN "Running" ELSE IF Stopped THEN "Stopped" ELSE "Stopping"

\* C16: once the flag is cleared both loops are eventually left and the
\* system is Stopped; a context that finds the flag cleared at its loop test
\* starts no further iteration; the states follow one another in the order
\* Running, Stopping, Stopped.
C16_CooperativeShutdown ==
    /\ [](~running => <>Stopped)
    /\ [][/\ (~running /\ At("mon", "mon1")) => ~At("mon", "adj1")'
          /\ (~running /\ At("main", "run2") /\ Len(todo) = Cardinality(Paths)) =>
                 ~At("main", "cf1")'
          /\ <<Phase, Phase'>> \in
                 {<<"Running", "Running">>, <<"Running", "Stopping">>,
                  <<"Stopping", "Stopping">>, <<"Stopping", "Stopped">>,
                  <<"Stopped", "Stopped">>}]_vars


\* C17: when cache_file or clean_cache returns and no write of the index file
\* has failed, the index file holds the index as it is in memory.
C17_IndexPersistence ==
    (/\ Returned("cache_file") \/ Returned("clean_cache")
     /\ ~raised["main"]
     /\ "fault_save" \notin events) => config = cached_files


\* The sweep context is inside clean_cache, past the trim of line 193.
PastTrim ==
    stack["main"] # <<>> /\
    Head(stack["main"]) \in {"cc2", "cc3", "cc4", "cc5", "cc6", "cc7", "cc8",
                             "cc9", "ccx"}

\* Last-access time of the cache file of the entry of origin path p.
CacheAtime(p) == atime[ssd[IndexEntry(p).c].id]

\* A clean_cache pass of the call in progress has returned.
CleanReturned ==
    /\ ~raised["main"]
    /\ \/ Returned("clean_cache")
       \/ Returned("adjust_cache_size") /\ "clean" \in events

=============================================================================
